---- MODULE Spec2Model ----
(***************************************************************************)
(* Push-notification fan-out of stoat-backend: the AMQP entry points of    *)
(* crates/core/database/src/amqp/amqp.rs with their presence filter, the   *)
(* presence store written by routes/channels/channel_activity.rs, and the  *)
(* Web Push subscriptions saved by routes/push/subscribe.rs.               *)
(*                                                                         *)
(* Strings are sequences of one-character strings, so that format!, the    *)
(* glob of KEYS and str::contains are computed, not assumed.               *)
(***************************************************************************)
EXTENDS Integers, Sequences, FiniteSets, TLC

VARIABLES store, last, scan, applied, sessions, subscribes

\* store: the Redis keys of the presence store; last: the call that has just
\* returned; scan: where a filter_viewers call in flight stands; applied: per
\* key, the channels whose latest open or close was an open; sessions: the
\* subscription saved on each session; subscribes: where the subscribe call
\* of each session stands
vars == <<store, last, scan, applied, sessions, subscribes>>

\* what the filter in flight and the writers around it hold
race == <<scan, applied>>

\* the Web Push side
push == <<sessions, subscribes>>

----------------------------------------------------------------------------
(* Bounds of the model *)

\* longest recipient list handed to message_sent
MaxRecipients == 2

\* seconds that pass in one step of the clock
TickLen == 300

\* most store commands that fail within one filter_viewers call
MaxFailures == 1

\* most pieces a text handed to the spoiler rule is put together from
MaxParts == 3

\* most subscribe calls in flight at one time
MaxInFlight == 2

----------------------------------------------------------------------------
(* Identifiers: users, their sessions, channels *)

u1 == <<"u", "1">>
u11 == <<"u", "1", "1">>
s1 == <<"s", "1">>
s2 == <<"s", "2">>
s3 == <<"s", "3">>
c1 == <<"c", "1">>
c9 == <<"c", "9">>

UserIds == {u1, u11}
SessionIds == {s1, s2, s3}
ChannelIds == {c1, c9}

\* the user a session was issued to: u1 is logged in twice, u11 once
SessionUser(s) == IF s = s3 THEN u11 ELSE u1

----------------------------------------------------------------------------
(* The presence store: Redis sets with a time to live *)

\* TTL of a key that has none (what Redis reports as -1)
NoTTL == -1

\* seconds a presence record lives after an 'open'
PresenceTTL == 300

\* the literal text of the key format, kept as one symbol; identifiers are
\* spelled out character by character
OpenChannelsPrefix == <<"open_channels:">>

\* format!("open_channels:{}:{}", user_id, session_id)
SessionKey(user_id, session_id) ==
    OpenChannelsPrefix \o user_id \o <<":">> \o session_id

\* the pattern without the ':' that ends the user id
SessionPatternNoColon(user_id) == OpenChannelsPrefix \o user_id \o <<"*">>

\* format!("open_channels:{}:*", user_id)
SessionPattern(user_id) == OpenChannelsPrefix \o user_id \o <<":", "*">>

\* the keys the sessions of the model write, in the order the store lists them
KeyList == <<SessionKey(u1, s1), SessionKey(u1, s2), SessionKey(u11, s3)>>

KeySpace == {KeyList[i] : i \in 1..Len(KeyList)}

\* a key that does not exist holds no member and has no TTL
Absent == [members |-> {}, ttl |-> NoTTL]

Exists(st, key) == st[key].members # {}

RECURSIVE GlobMatch(_, _)
\* Redis glob matching of a pattern whose only special character is '*'
GlobMatch(pattern, str) ==
    IF pattern = <<>> THEN str = <<>>
    ELSE IF Head(pattern) = "*"
         THEN \/ GlobMatch(Tail(pattern), str)
              \/ str # <<>> /\ GlobMatch(pattern, Tail(str))
         ELSE /\ str # <<>>
              /\ Head(str) = Head(pattern)
              /\ GlobMatch(Tail(pattern), Tail(str))

\* the keys each pattern of the filter matches, worked out once
Matching ==
    [pattern \in {SessionPattern(user_id) : user_id \in UserIds} |->
        {key \in KeySpace : GlobMatch(pattern, key)}]

Reverse(seq) == [i \in 1..Len(seq) |-> seq[Len(seq) + 1 - i]]

\* KEYS pattern: the existing keys that match, in an order the store chooses
KEYS(st, pattern, rev) ==
    LET Hit(key) == Exists(st, key) /\ key \in Matching[pattern]
        found == SelectSeq(KeyList, Hit)
    IN  IF rev THEN Reverse(found) ELSE found

\* SMEMBERS key
SMEMBERS(st, key) == st[key].members

\* a write that replaces the set by the one member
SaddReplacing(st, key, member) ==
    [st EXCEPT ![key].members = {member}]

\* SADD key member: creates the set, without a TTL, when the key is new
SADD(st, key, member) ==
    [st EXCEPT ![key].members = @ \cup {member}]

\* EXPIRE key seconds: nothing happens on a key that does not exist
EXPIRE(st, key, seconds) ==
    IF Exists(st, key) THEN [st EXCEPT ![key].ttl = seconds] ELSE st

\* a close that deletes the key
SremClearing(st, key, member) == [st EXCEPT ![key] = Absent]

\* SREM key member: a set that loses its last member is deleted
SREM(st, key, member) ==
    IF st[key].members \subseteq {member}
    THEN [st EXCEPT ![key] = Absent]
    ELSE [st EXCEPT ![key].members = @ \ {member}]

\* the store after TickLen seconds: TTLs count down, expired keys vanish
Expire(st) ==
    [key \in KeySpace |->
        IF st[key].ttl = NoTTL THEN st[key]
        ELSE IF st[key].ttl <= TickLen THEN Absent
        ELSE [st[key] EXCEPT !.ttl = @ - TickLen]]

----------------------------------------------------------------------------
(* The record of the call that has just returned *)

NoCall ==
    [op |-> "none", args |-> <<>>, result |-> "none", to_string |-> "none",
     publishes |-> <<>>, publish_results |-> <<>>, store_ops |-> <<>>, viewer_ids |-> {}]

Idle == last.op = "none"

\* one command sent to the store: its argument, whether it succeeded, its reply
StoreOp(cmd, arg, ok, reply) ==
    [cmd |-> cmd, arg |-> arg, ok |-> ok, reply |-> reply]

----------------------------------------------------------------------------
(* routes/channels/channel_activity.rs *)

\* update_channel_activity_in_redis: the store it leaves, its result and the
\* commands it has sent. env.conn_ok: get_connection succeeds; env.fail: the
\* commands that fail
update_channel_activity_in_redis(st, user_id, session_id, channel_id, activity_type, env) ==
    LET session_key == SessionKey(user_id, session_id)
        connect(ok) == StoreOp("get_connection", <<>>, ok, <<>>)
        sadd(ok) == StoreOp("SADD", session_key, ok, channel_id)
        expire(ok) == StoreOp("EXPIRE", session_key, ok, PresenceTTL)
        srem(ok) == StoreOp("SREM", session_key, ok, channel_id)
    IN
    IF ~env.conn_ok
    THEN [store |-> st, result |-> "InternalError", ops |-> <<connect(FALSE)>>]
    ELSE IF activity_type = "open"
    THEN IF "SADD" \in env.fail
         THEN [store |-> st, result |-> "InternalError",
               ops |-> <<connect(TRUE), sadd(FALSE)>>]
         ELSE LET added == SADD(st, session_key, channel_id) IN
              IF "EXPIRE" \in env.fail
              THEN [store |-> added, result |-> "InternalError",
                    ops |-> <<connect(TRUE), sadd(TRUE), expire(FALSE)>>]
              ELSE [store |-> EXPIRE(added, session_key, PresenceTTL),
                    result |-> "Ok",
                    ops |-> <<connect(TRUE), sadd(TRUE), expire(TRUE)>>]
    ELSE IF "SREM" \in env.fail
         THEN [store |-> st, result |-> "InternalError",
               ops |-> <<connect(TRUE), srem(FALSE)>>]
         ELSE [store |-> SREM(st, session_key, channel_id), result |-> "Ok",
               ops |-> <<connect(TRUE), srem(TRUE)>>]

\* the ways the store can treat one update: the connection fails, or one of
\* the commands of the update does
StoreEnvs(activity_type) ==
    {[conn_ok |-> FALSE, fail |-> {}]}
    \cup {[conn_ok |-> TRUE, fail |-> f] :
            f \in IF activity_type = "open"
                  THEN {{}, {"SADD"}, {"EXPIRE"}} ELSE {{}, {"SREM"}}}

\* the guards without the permission check
GuardWithoutViewChannel(bot, found, can_view) ==
    IF bot THEN "IsBot" ELSE IF ~found THEN "NotFound" ELSE "pass"

\* the guards of update_activity, in their order: user.bot, as_channel,
\* throw_if_lacking_channel_permission(ViewChannel)
Guard(bot, found, can_view) ==
    IF bot THEN "IsBot"
    ELSE IF ~found THEN "NotFound"
    ELSE IF ~can_view THEN "MissingPermission"
    ELSE "pass"

\* update_activity: the guards, then the write to the store. bot: the user
\* is a bot; found: the target is a channel; can_view: the user has ViewChannel
update_activity(session_id, target, activity_type, bot, found, can_view, env) ==
    LET user_id == SessionUser(session_id)
        args == [user |-> user_id, session |-> session_id, target |-> target,
                 type |-> activity_type, bot |-> bot, found |-> found,
                 can_view |-> can_view]
        called == [NoCall EXCEPT !.op = "update_activity", !.args = args]
        guard == Guard(bot, found, can_view)
    IN  IF guard # "pass"
        THEN /\ store' = store
             /\ last' = [called EXCEPT !.result = guard]
        ELSE \E done \in {update_channel_activity_in_redis(
                             store, user_id, session_id, target, activity_type, env)} :
                /\ store' = done.store
                /\ last' = [called EXCEPT !.result = done.result,
                                          !.store_ops = done.ops]

\* the clock: TickLen seconds pass with no request in between
Tick ==
    /\ Idle
    /\ store' = Expire(store)
    /\ store' # store
    /\ last' = last
    /\ UNCHANGED <<race, push>>

\* the caller takes the result of the call
Return ==
    /\ ~Idle
    /\ last' = NoCall
    /\ store' = store
    /\ UNCHANGED <<race, push>>

----------------------------------------------------------------------------
(* crates/core/database/src/amqp/amqp.rs: the presence filter *)

\* 'break' after a failed SMEMBERS: the other keys are not looked at
StopAfterFailedSmembers(keys) == <<>>

\* 'continue' after a failed SMEMBERS: the loop goes on with the other keys
AfterFailedSmembers(keys) == Tail(keys)

\* a test that any open channel satisfies
HasAnyOpen(members, channel_id) == members # {}

\* members.contains(channel_id)
HasOpen(members, channel_id) == channel_id \in members

RECURSIVE ScanKeys(_, _, _, _, _, _)
\* the loop over one recipient's session keys, from the viewers found and the
\* commands sent so far: a failed SMEMBERS is skipped, the first set that
\* holds the channel makes the recipient a viewer and ends the loop
ScanKeys(keys, user_id, channel_id, st, env, sofar) ==
    IF keys = <<>> THEN sofar
    ELSE IF Head(keys) \in env.smembers_fail
    THEN ScanKeys(AfterFailedSmembers(keys), user_id, channel_id, st, env,
            [sofar EXCEPT
                !.ops = Append(@, StoreOp("SMEMBERS", Head(keys), FALSE, {}))])
    ELSE IF HasOpen(SMEMBERS(st, Head(keys)), channel_id)
    THEN [sofar EXCEPT
            !.ops = Append(@, StoreOp("SMEMBERS", Head(keys), TRUE,
                                      SMEMBERS(st, Head(keys)))),
            !.viewer_ids = @ \cup {user_id}]
    ELSE ScanKeys(Tail(keys), user_id, channel_id, st, env,
            [sofar EXCEPT
                !.ops = Append(@, StoreOp("SMEMBERS", Head(keys), TRUE,
                                          SMEMBERS(st, Head(keys))))])

RECURSIVE ScanRecipients(_, _, _, _, _)
\* the loop over the recipients, from the viewers found and the commands sent
\* so far: a failed KEYS skips the recipient
ScanRecipients(recipients, channel_id, st, env, sofar) ==
    IF recipients = <<>> THEN sofar
    ELSE IF Head(recipients) \in env.keys_fail
    THEN ScanRecipients(Tail(recipients), channel_id, st, env,
            [sofar EXCEPT
                !.ops = Append(@, StoreOp("KEYS", SessionPattern(Head(recipients)),
                                          FALSE, <<>>))])
    ELSE ScanRecipients(Tail(recipients), channel_id, st, env,
            ScanKeys(KEYS(st, SessionPattern(Head(recipients)), env.rev),
                     Head(recipients), channel_id, st, env,
                     [sofar EXCEPT
                        !.ops = Append(@,
                            StoreOp("KEYS", SessionPattern(Head(recipients)), TRUE,
                                    KEYS(st, SessionPattern(Head(recipients)),
                                         env.rev)))]))

Range(seq) == {seq[i] : i \in 1..Len(seq)}

\* failing closed: without the store every recipient counts as a viewer
EveryoneWithoutStore(recipients) == Range(recipients)

\* what filter_viewers returns when get_connection fails
ViewersWithoutStore(recipients) == {}

\* filter_viewers: the viewers it finds and the store commands it issues.
\* env.conn_ok: get_connection succeeds; env.keys_fail: the users whose KEYS
\* fails; env.smembers_fail: the keys whose SMEMBERS fails; env.rev: the order
\* of the KEYS reply
filter_viewers(recipients, channel_id, st, env) ==
    IF ~env.conn_ok
    THEN [viewer_ids |-> ViewersWithoutStore(recipients),
          ops |-> <<StoreOp("get_connection", <<>>, FALSE, <<>>)>>]
    ELSE ScanRecipients(recipients, channel_id, st, env,
            [viewer_ids |-> {},
             ops |-> <<StoreOp("get_connection", <<>>, TRUE, <<>>)>>])

\* a SMEMBERS that takes the set it reads out of the store
AfterTakingRead(st, op) ==
    IF op.cmd = "SMEMBERS" /\ op.ok THEN [st EXCEPT ![op.arg] = Absent] ELSE st

\* the store after one command of the filter: get_connection, KEYS and
\* SMEMBERS only read
AfterRead(st, op) == st

RECURSIVE StoreAfter(_, _)
\* the store after the commands of one filter_viewers call
StoreAfter(st, ops) ==
    IF ops = <<>> THEN st
    ELSE StoreAfter(AfterRead(st, Head(ops)), Tail(ops))

\* the keys KEYS can return for the recipients, as the store stands
SessionKeysOf(recipients, st) ==
    {key \in KeySpace :
        /\ Exists(st, key)
        /\ \E user_id \in Range(recipients) :
              key \in Matching[SessionPattern(user_id)]}

\* the ways the store can treat the commands of one filter_viewers call: the
\* connection fails, or at most MaxFailures of its KEYS and SMEMBERS fail;
\* the order of a KEYS reply is open when it holds more than one key
FilterEnvs(recipients, st) ==
    {[conn_ok |-> FALSE, keys_fail |-> {}, smembers_fail |-> {}, rev |-> FALSE]}
    \cup {[conn_ok |-> TRUE, keys_fail |-> f \cap UserIds,
           smembers_fail |-> f \cap KeySpace, rev |-> r] :
            f \in {g \in SUBSET (Range(recipients) \cup SessionKeysOf(recipients, st)) :
                        Cardinality(g) <= MaxFailures},
            r \in IF \E user_id \in Range(recipients) :
                        Len(KEYS(st, SessionPattern(user_id), FALSE)) > 1
                  THEN BOOLEAN ELSE {FALSE}}

----------------------------------------------------------------------------
(* crates/core/database/src/amqp/amqp.rs: payloads and the publish *)

\* str::contains
Contains(text, pat) ==
    \E i \in 1..(Len(text) - Len(pat) + 1) :
        SubSeq(text, i, i + Len(pat) - 1) = pat

\* the placeholder "(spoiler)" in Korean, its four Hangul syllables written as code points
SpoilerPlaceholder == <<"(", "U+C2A4", "U+D3EC", "U+C77C", "U+B7EC", ")">>

\* the rule asking for an opening marker only
HasOpeningMarker(text) ==
    Contains(text, <<"[", "[">>) \/ Contains(text, <<"\\", "[", "\\", "[">>)

\* the condition of the spoiler rule
HasSpoiler(text) ==
    /\ Contains(text, <<"[", "[">>) \/ Contains(text, <<"\\", "[", "\\", "[">>)
    /\ Contains(text, <<"]", "]">>) \/ Contains(text, <<"\\", "]", "\\", "]">>)

\* the placeholder added to the text instead of replacing it
AppendPlaceholder(text) ==
    IF HasSpoiler(text) THEN text \o SpoilerPlaceholder ELSE text

\* the spoiler rule on one text
RedactText(text) == IF HasSpoiler(text) THEN SpoilerPlaceholder ELSE text

\* Option::None, kept apart from every text
None == <<"None">>

\* the spoiler handling of message_sent on a PushNotification
RedactSpoilers(payload) ==
    [payload EXCEPT
        !.body = RedactText(@),
        !.content = IF @ # None THEN RedactText(@) ELSE @]

\* the pushd configuration as the entry points read it
Config ==
    [exchange |-> "exchange",
     fr_accepted_routing_key |-> "fr_accepted",
     fr_received_routing_key |-> "fr_received",
     generic_routing_key |-> "generic",
     message_routing_key |-> "message",
     mass_mention_routing_key |-> "mass_mention",
     ack_queue |-> "ack"]

\* the properties without the persistence flag
JsonTransient ==
    [content_type |-> "application/json", persistence |-> FALSE, headers |-> {}]

\* BasicProperties::default().with_content_type(..).with_persistence(true)
JsonPersistent ==
    [content_type |-> "application/json", persistence |-> TRUE, headers |-> {}]

\* one basic_publish
Message(properties, body, exchange, routing_key) ==
    [properties |-> properties, body |-> body,
     exchange |-> exchange, routing_key |-> routing_key]

\* the result of basic_publish(..).await
PublishResult(broker_ok) == IF broker_ok THEN "Ok" ELSE "Err"

\* to_string(&payload).unwrap() on a payload that does not serialize: the
\* call panics where it stands, before any publish
Panicked(called) == [called EXCEPT !.to_string = "Err", !.result = "panic"]

\* a call that reports success whatever basic_publish returned
Swallowed(publish_result) == "Ok"

\* the value of the call is the value of basic_publish(..).await
Returned(publish_result) == publish_result

\* the one basic_publish of an entry point, as the last expression of the call
Published(called, message, broker_ok) ==
    [called EXCEPT !.to_string = "Ok",
                   !.result = Returned(PublishResult(broker_ok)),
                   !.publishes = <<message>>,
                   !.publish_results = <<PublishResult(broker_ok)>>]

\* message_sent without its first return
NeverReturnEarly(recipients) == FALSE

\* the first return of message_sent
NoRecipients(recipients) == recipients = <<>>

\* message_sent without its second return
NeverEveryoneViewing(remaining) == FALSE

\* the second return of message_sent: the filter has left no recipient
EveryoneViewing(remaining) == remaining = {}

\* message_sent
message_sent(recipients, payload, env, ser_ok, broker_ok) ==
    LET args == [recipients |-> recipients, payload |-> payload]
        called == [NoCall EXCEPT !.op = "message_sent", !.args = args]
    IN
    IF NoRecipients(recipients)
    THEN /\ store' = store
         /\ last' = [called EXCEPT !.result = "Ok"]
    ELSE IF ~ser_ok
    THEN /\ store' = store
         /\ last' = Panicked(called)
    ELSE LET channel_id == payload.channel
             body == [notification |-> RedactSpoilers(payload),
                      users |-> recipients]
         IN  \E found \in {filter_viewers(recipients, channel_id, store, env)} :
               LET left == Range(recipients) \ found.viewer_ids
                   seen == [called EXCEPT !.to_string = "Ok",
                                          !.store_ops = found.ops,
                                          !.viewer_ids = found.viewer_ids]
               IN  /\ store' = StoreAfter(store, found.ops)
                   /\ IF EveryoneViewing(left)
                      THEN last' = [seen EXCEPT !.result = "Ok"]
                      ELSE last' =
                            Published(seen,
                                Message(JsonPersistent, body, Config.exchange,
                                        Config.message_routing_key),
                                broker_ok)

\* the user snapshot a payload carries
User(user_id) == [id |-> user_id]

\* friend_request_accepted
friend_request_accepted(accepted_request_user, sent_request_user, ser_ok, broker_ok) ==
    LET payload == [accepted_user |-> accepted_request_user,
                    user |-> sent_request_user.id]
        called == [NoCall EXCEPT
                    !.op = "friend_request_accepted",
                    !.args = [accepted_request_user |-> accepted_request_user,
                              sent_request_user |-> sent_request_user]]
    IN  /\ store' = store
        /\ last' = IF ~ser_ok THEN Panicked(called)
                   ELSE Published(called,
                            Message(JsonPersistent, payload, Config.exchange,
                                    Config.fr_accepted_routing_key),
                            broker_ok)

\* friend_request_received
friend_request_received(received_request_user, sent_request_user, ser_ok, broker_ok) ==
    LET payload == [from_user |-> sent_request_user,
                    user |-> received_request_user.id]
        called == [NoCall EXCEPT
                    !.op = "friend_request_received",
                    !.args = [received_request_user |-> received_request_user,
                              sent_request_user |-> sent_request_user]]
    IN  /\ store' = store
        /\ last' = IF ~ser_ok THEN Panicked(called)
                   ELSE Published(called,
                            Message(JsonPersistent, payload, Config.exchange,
                                    Config.fr_received_routing_key),
                            broker_ok)

\* generic_message
generic_message(user, title, body, icon, ser_ok, broker_ok) ==
    LET payload == [title |-> title, body |-> body, icon |-> icon, user |-> user]
        called == [NoCall EXCEPT
                    !.op = "generic_message",
                    !.args = [user |-> user, title |-> title, body |-> body,
                              icon |-> icon]]
    IN  /\ store' = store
        /\ last' = IF ~ser_ok THEN Panicked(called)
                   ELSE Published(called,
                            Message(JsonPersistent, payload, Config.exchange,
                                    Config.generic_routing_key),
                            broker_ok)

\* mass_mention_message_sent
mass_mention_message_sent(server_id, payload, ser_ok, broker_ok) ==
    LET body == [notifications |-> payload, server_id |-> server_id]
        routing_key == Config.mass_mention_routing_key
        called == [NoCall EXCEPT
                    !.op = "mass_mention_message_sent",
                    !.args = [server_id |-> server_id, payload |-> payload]]
    IN  /\ store' = store
        /\ last' = IF ~ser_ok THEN Panicked(called)
                   ELSE Published(called,
                            Message(JsonPersistent, body, Config.exchange, routing_key),
                            broker_ok)

\* format!("{}-{}", &user_id, &channel_id)
DeduplicationKey(user_id, channel_id) == user_id \o <<"-">> \o channel_id

\* the properties ack_message publishes with: the headers it has built are
\* not put on them (.with_headers(headers) is commented out)
AckProperties(headers) == JsonPersistent

\* ack_message
ack_message(user_id, channel_id, message_id, ser_ok, broker_ok) ==
    LET payload == [user_id |-> user_id, channel_id |-> channel_id,
                    message_id |-> message_id]
        headers == {<<"x-deduplication-header",
                      DeduplicationKey(user_id, channel_id)>>}
        called == [NoCall EXCEPT !.op = "ack_message", !.args = payload]
    IN  /\ store' = store
        /\ last' = IF ~ser_ok THEN Panicked(called)
                   ELSE Published(called,
                            Message(AckProperties(headers), payload, Config.exchange,
                                    Config.ack_queue),
                            broker_ok)

----------------------------------------------------------------------------
\* no filter_viewers call is in flight
NoScan ==
    [pc |-> "idle", recipients |-> <<>>, channel |-> <<>>, todo |-> <<>>,
     keys |-> <<>>, viewer_ids |-> {}, failed |-> FALSE,
     during |-> {}, steady |-> {}]

\* session.subscription = None
NoSubscription == [endpoint |-> "none", auth |-> "none"]

\* no subscribe call of the session is in flight
NoSubscribe ==
    [pc |-> "idle", sub |-> NoSubscription, removal |-> "none",
     saved |-> FALSE, result |-> "none"]

Init ==
    /\ store = [key \in KeySpace |-> Absent]
    /\ last = NoCall
    /\ scan = NoScan
    /\ applied = [key \in KeySpace |-> {}]
    /\ sessions = [s \in SessionIds |-> NoSubscription]
    /\ subscribes = [s \in SessionIds |-> NoSubscribe]

UpdateActivity ==
    /\ Idle
    /\ UNCHANGED <<race, push>>
    /\ \E session_id \in SessionIds, target \in ChannelIds,
          activity_type \in {"open", "close"},
          bot \in BOOLEAN, found \in BOOLEAN, can_view \in BOOLEAN :
           \E env \in StoreEnvs(activity_type) :
              update_activity(session_id, target, activity_type,
                              bot, found, can_view, env)

RECURSIVE SeqsUpTo(_, _)
\* the sequences over S of length at most n
SeqsUpTo(S, n) ==
    IF n = 0 THEN {<<>>}
    ELSE LET shorter == SeqsUpTo(S, n - 1) IN
         shorter \cup {Append(q, x) : q \in shorter, x \in S}

PlainText == <<"a">>
SpoilerText == <<"[", "[", "a", "]", "]">>

Notification(channel, body, content) ==
    [channel |-> channel, body |-> body, content |-> content]

MessageSent ==
    /\ Idle
    /\ UNCHANGED <<race, push>>
    /\ \E recipients \in SeqsUpTo(UserIds, MaxRecipients), channel \in ChannelIds,
          broker_ok \in BOOLEAN :
           \E env \in FilterEnvs(recipients, store) :
              message_sent(recipients, Notification(channel, SpoilerText, PlainText),
                           env, TRUE, broker_ok)

FriendRequestAccepted ==
    /\ Idle
    /\ UNCHANGED <<race, push>>
    /\ \E a \in UserIds, b \in UserIds, broker_ok \in BOOLEAN :
           friend_request_accepted(User(a), User(b), TRUE, broker_ok)

FriendRequestReceived ==
    /\ Idle
    /\ UNCHANGED <<race, push>>
    /\ \E a \in UserIds, b \in UserIds, broker_ok \in BOOLEAN :
           friend_request_received(User(a), User(b), TRUE, broker_ok)

GenericMessage ==
    /\ Idle
    /\ UNCHANGED <<race, push>>
    /\ \E u \in UserIds, icon \in {None, <<"i">>}, broker_ok \in BOOLEAN :
           generic_message(User(u), <<"t">>, SpoilerText, icon, TRUE, broker_ok)

MassMentionMessageSent ==
    /\ Idle
    /\ UNCHANGED <<race, push>>
    /\ \E payload \in SeqsUpTo({Notification(c1, SpoilerText, None)}, 1),
          broker_ok \in BOOLEAN :
           mass_mention_message_sent(<<"g", "1">>, payload, TRUE, broker_ok)

AckMessage ==
    /\ Idle
    /\ UNCHANGED <<race, push>>
    /\ \E user_id \in UserIds, channel_id \in ChannelIds, broker_ok \in BOOLEAN :
           ack_message(user_id, channel_id, <<"m", "1">>, TRUE, broker_ok)

Next ==
    \/ UpdateActivity
    \/ Tick
    \/ MessageSent
    \/ FriendRequestAccepted
    \/ FriendRequestReceived
    \/ GenericMessage
    \/ MassMentionMessageSent
    \/ AckMessage
    \/ Return

Spec == Init /\ [][Next]_vars

----------------------------------------------------------------------------
(* The spoiler rule on its own: message_sent on many texts, one recipient, *)
(* a store that answers and a broker that accepts                          *)

Pieces ==
    {<<"[">>, <<"]">>, <<"\\">>, <<"a">>, <<"[", "[">>, <<"]", "]">>,
     <<"\\", "[", "\\", "[">>, <<"\\", "]", "\\", "]">>}

RECURSIVE TextsOf(_)
\* the texts put together from at most n pieces
TextsOf(n) ==
    IF n = 0 THEN {<<>>}
    ELSE LET shorter == TextsOf(n - 1) IN
         shorter \cup {t \o p : t \in shorter, p \in Pieces}

Texts == TextsOf(MaxParts)

NoFailure ==
    [conn_ok |-> TRUE, keys_fail |-> {}, smembers_fail |-> {}, rev |-> FALSE]

MessageSentBody ==
    /\ Idle
    /\ UNCHANGED <<race, push>>
    /\ \E body \in Texts, content \in {None, PlainText, SpoilerText} :
           message_sent(<<u1>>, Notification(c1, body, content), NoFailure, TRUE, TRUE)

MessageSentContent ==
    /\ Idle
    /\ UNCHANGED <<race, push>>
    /\ \E body \in {PlainText, SpoilerText}, content \in Texts :
           message_sent(<<u1>>, Notification(c1, body, content), NoFailure, TRUE, TRUE)

NextRedact ==
    \/ MessageSentBody
    \/ MessageSentContent
    \/ Return

SpecRedact == Init /\ [][NextRedact]_vars

----------------------------------------------------------------------------
(* The entry points on payloads whose serialization may fail: to_string is *)
(* given a value it cannot write as JSON, the store is empty               *)

SerializeMessageSent ==
    /\ Idle
    /\ UNCHANGED <<race, push>>
    /\ \E recipients \in SeqsUpTo(UserIds, MaxRecipients), channel \in ChannelIds,
          ser_ok \in BOOLEAN, broker_ok \in BOOLEAN :
           \E env \in FilterEnvs(recipients, store) :
              message_sent(recipients, Notification(channel, SpoilerText, PlainText),
                           env, ser_ok, broker_ok)

SerializeFriendRequestAccepted ==
    /\ Idle
    /\ UNCHANGED <<race, push>>
    /\ \E a \in UserIds, b \in UserIds, ser_ok \in BOOLEAN, broker_ok \in BOOLEAN :
           friend_request_accepted(User(a), User(b), ser_ok, broker_ok)

SerializeFriendRequestReceived ==
    /\ Idle
    /\ UNCHANGED <<race, push>>
    /\ \E a \in UserIds, b \in UserIds, ser_ok \in BOOLEAN, broker_ok \in BOOLEAN :
           friend_request_received(User(a), User(b), ser_ok, broker_ok)

SerializeGenericMessage ==
    /\ Idle
    /\ UNCHANGED <<race, push>>
    /\ \E u \in UserIds, icon \in {None, <<"i">>}, ser_ok \in BOOLEAN,
          broker_ok \in BOOLEAN :
           generic_message(User(u), <<"t">>, SpoilerText, icon, ser_ok, broker_ok)

SerializeMassMentionMessageSent ==
    /\ Idle
    /\ UNCHANGED <<race, push>>
    /\ \E payload \in SeqsUpTo({Notification(c1, SpoilerText, None)}, 1),
          ser_ok \in BOOLEAN, broker_ok \in BOOLEAN :
           mass_mention_message_sent(<<"g", "1">>, payload, ser_ok, broker_ok)

SerializeAckMessage ==
    /\ Idle
    /\ UNCHANGED <<race, push>>
    /\ \E user_id \in UserIds, channel_id \in ChannelIds, ser_ok \in BOOLEAN,
          broker_ok \in BOOLEAN :
           ack_message(user_id, channel_id, <<"m", "1">>, ser_ok, broker_ok)

NextSerialize ==
    \/ SerializeMessageSent
    \/ SerializeFriendRequestAccepted
    \/ SerializeFriendRequestReceived
    \/ SerializeGenericMessage
    \/ SerializeMassMentionMessageSent
    \/ SerializeAckMessage
    \/ Return

SpecSerialize == Init /\ [][NextSerialize]_vars

----------------------------------------------------------------------------
(* filter_viewers await by await, while the commands of open and close     *)
(* requests and the expiry of keys go on in the store                      *)

\* the user has the channel in the set of one of their session keys
ViewingIn(st, user_id, channel_id) ==
    \E s \in SessionIds :
        /\ SessionUser(s) = user_id
        /\ channel_id \in st[SessionKey(user_id, s)].members

\* what has been true of the store since the call in flight began: the
\* recipients seen viewing at some moment, the keys holding the channel at
\* every moment
Observe(sc, st) ==
    IF sc.pc = "idle" THEN sc
    ELSE [sc EXCEPT
            !.during = @ \cup {u \in Range(sc.recipients) :
                                ViewingIn(st, u, sc.channel)},
            !.steady = {key \in @ : sc.channel \in st[key].members}]

\* the recipient lists of the calls that run among the writers
RaceRecipients == {<<u1>>, <<u11>>, <<u1, u11>>, <<u11, u1>>}

\* filter_viewers is called
FilterCall ==
    /\ scan.pc = "idle"
    /\ \E recipients \in RaceRecipients, channel_id \in ChannelIds :
           scan' = [NoScan EXCEPT
                      !.pc = "connect",
                      !.recipients = recipients,
                      !.channel = channel_id,
                      !.todo = recipients,
                      !.during = {u \in Range(recipients) :
                                    ViewingIn(store, u, channel_id)},
                      !.steady = {key \in KeySpace :
                                    channel_id \in store[key].members}]
    /\ UNCHANGED <<store, last, applied, push>>

\* get_connection().await
FilterConnect ==
    /\ scan.pc = "connect"
    /\ \E ok \in BOOLEAN :
           scan' = IF ok THEN [scan EXCEPT !.pc = "keys"]
                   ELSE [scan EXCEPT
                            !.pc = "done",
                            !.viewer_ids = ViewersWithoutStore(scan.recipients),
                            !.failed = TRUE]
    /\ UNCHANGED <<store, last, applied, push>>

\* the loop over the recipients moves on to the next one, or ends
NextRecipient(sc) ==
    [sc EXCEPT !.todo = Tail(@), !.keys = <<>>,
               !.pc = IF Tail(sc.todo) = <<>> THEN "done" ELSE "keys"]

\* conn.keys(&session_pattern).await for the recipient at hand
FilterKeys ==
    /\ scan.pc = "keys"
    /\ \E ok \in BOOLEAN, rev \in BOOLEAN :
           LET keys == KEYS(store, SessionPattern(Head(scan.todo)), rev) IN
           scan' = IF ~ok THEN NextRecipient([scan EXCEPT !.failed = TRUE])
                   ELSE IF keys = <<>> THEN NextRecipient(scan)
                   ELSE [scan EXCEPT !.pc = "smembers", !.keys = keys]
    /\ UNCHANGED <<store, last, applied, push>>

\* the loop over the keys goes on with the keys left, or ends
NextKey(sc, rest) ==
    IF rest = <<>> THEN NextRecipient(sc) ELSE [sc EXCEPT !.keys = rest]

\* conn.smembers(&key).await for the key at hand
FilterSmembers ==
    /\ scan.pc = "smembers"
    /\ \E ok \in BOOLEAN :
           scan' =
             IF ~ok
             THEN NextKey([scan EXCEPT !.failed = TRUE],
                          AfterFailedSmembers(scan.keys))
             ELSE IF HasOpen(SMEMBERS(store, Head(scan.keys)), scan.channel)
             THEN NextRecipient(
                    [scan EXCEPT !.viewer_ids = @ \cup {Head(scan.todo)}])
             ELSE NextKey(scan, Tail(scan.keys))
    /\ UNCHANGED <<store, last, applied, push>>

\* filter_viewers returns viewer_ids
FilterReturn ==
    /\ scan.pc = "done"
    /\ scan' = NoScan
    /\ UNCHANGED <<store, last, applied, push>>

\* an open request runs its SADD; it may end there, its EXPIRE failing or
\* the request being dropped, or stay in flight for any time
OpenSadd ==
    \E session_id \in SessionIds, channel_id \in ChannelIds :
        LET key == SessionKey(SessionUser(session_id), session_id) IN
        /\ store' = SADD(store, key, channel_id)
        /\ applied' = [applied EXCEPT ![key] = @ \cup {channel_id}]
        /\ scan' = Observe(scan, store')
        /\ UNCHANGED <<last, push>>

\* an open request in flight runs its EXPIRE: any number of opens of a
\* session may stand between their two commands, so the EXPIRE of one can
\* come at any moment after the SADD that made the key
OpenExpire ==
    \E key \in KeySpace :
        /\ Exists(store, key)
        /\ store' = EXPIRE(store, key, PresenceTTL)
        /\ scan' = Observe(scan, store')
        /\ UNCHANGED <<last, applied, push>>

\* a close request runs its SREM
CloseSrem ==
    \E session_id \in SessionIds, channel_id \in ChannelIds :
        LET key == SessionKey(SessionUser(session_id), session_id) IN
        /\ store' = SREM(store, key, channel_id)
        /\ store' # store
        /\ applied' = [applied EXCEPT ![key] = @ \ {channel_id}]
        /\ scan' = Observe(scan, store')
        /\ UNCHANGED <<last, push>>

\* TickLen seconds pass: the keys whose TTL runs out are deleted
KeysExpire ==
    /\ store' = Expire(store)
    /\ store' # store
    /\ applied' = [key \in KeySpace |->
                    IF store[key].ttl # NoTTL /\ store[key].ttl <= TickLen
                    THEN {} ELSE applied[key]]
    /\ scan' = Observe(scan, store')
    /\ UNCHANGED <<last, push>>

NextRace ==
    \/ FilterCall
    \/ FilterConnect
    \/ FilterKeys
    \/ FilterSmembers
    \/ FilterReturn
    \/ OpenSadd
    \/ OpenExpire
    \/ CloseSrem
    \/ KeysExpire

SpecRace == Init /\ [][NextRace]_vars

----------------------------------------------------------------------------
(* routes/push/subscribe.rs, await by await: the subscribe calls of the    *)
(* sessions run side by side                                               *)

\* the subscriptions the clients send: two FCM tokens, and a Web Push
\* endpoint whose auth secret reads like the first token
Subscriptions ==
    {[endpoint |-> "fcm", auth |-> "t1"],
     [endpoint |-> "fcm", auth |-> "t2"],
     [endpoint |-> "https://push", auth |-> "t1"]}

\* db.remove_duplicate_fcm_subscriptions(user_id, token): the sessions of the
\* user that hold an FCM subscription with the token lose it
remove_duplicate_fcm_subscriptions(ss, user_id, token) ==
    [s \in SessionIds |->
        IF /\ SessionUser(s) = user_id
           /\ ss[s].endpoint = "fcm"
           /\ ss[s].auth = token
        THEN NoSubscription ELSE ss[s]]

\* a result that reports the failed removal
ResultOfRemovalAndSave(removal, saved) ==
    IF removal = "failed" \/ ~saved THEN "DatabaseError" ELSE "Ok"

\* .map(|_| EmptyResponse).map_err(|_| create_database_error!("save", "session"))
ResultOfSave(removal, saved) == IF saved THEN "Ok" ELSE "DatabaseError"

\* subscribe is called on a session: new_subscription = data.into_inner(),
\* and the test of the endpoint
SubscribeCall ==
    \E s \in SessionIds, new_subscription \in Subscriptions :
        /\ subscribes[s].pc = "idle"
        /\ Cardinality({t \in SessionIds : subscribes[t].pc # "idle"}) < MaxInFlight
        /\ subscribes' =
             [subscribes EXCEPT ![s] =
                IF new_subscription.endpoint = "fcm"
                THEN [NoSubscribe EXCEPT !.pc = "remove", !.sub = new_subscription]
                ELSE [NoSubscribe EXCEPT !.pc = "save", !.sub = new_subscription,
                                         !.removal = "skipped"]]
        /\ UNCHANGED <<store, last, race, sessions>>

\* db.remove_duplicate_fcm_subscriptions(..).await: an error is captured and
\* the call goes on
SubscribeRemove ==
    \E s \in SessionIds, ok \in BOOLEAN :
        /\ subscribes[s].pc = "remove"
        /\ sessions' =
             IF ok
             THEN remove_duplicate_fcm_subscriptions(
                     sessions, SessionUser(s), subscribes[s].sub.auth)
             ELSE sessions
        /\ subscribes' =
             [subscribes EXCEPT ![s].pc = "save",
                                ![s].removal = IF ok THEN "ok" ELSE "failed"]
        /\ UNCHANGED <<store, last, race>>

\* session.subscription = Some(new_subscription); session.save(authifier).await
SubscribeSave ==
    \E s \in SessionIds, ok \in BOOLEAN :
        /\ subscribes[s].pc = "save"
        /\ sessions' =
             IF ok THEN [sessions EXCEPT ![s] = subscribes[s].sub] ELSE sessions
        /\ subscribes' =
             [subscribes EXCEPT
                ![s].pc = "done",
                ![s].saved = ok,
                ![s].result = ResultOfSave(subscribes[s].removal, ok)]
        /\ UNCHANGED <<store, last, race>>

\* the client receives the response
SubscribeReturn ==
    \E s \in SessionIds :
        /\ subscribes[s].pc = "done"
        /\ subscribes' = [subscribes EXCEPT ![s] = NoSubscribe]
        /\ UNCHANGED <<store, last, race, sessions>>

NextSubscribe ==
    \/ SubscribeCall
    \/ SubscribeRemove
    \/ SubscribeSave
    \/ SubscribeReturn

SpecSubscribe == Init /\ [][NextSubscribe]_vars

----------------------------------------------------------------------------
(* What the claims speak of, said without the filter's own code *)

IsMessageSent == last.op = "message_sent"

Recipients == last.args.recipients

\* the channel of the message of the call
CallChannel == last.args.payload.channel

\* the user has the channel in the set of one of their existing session keys
IsViewing(user_id, channel_id) ==
    \E s \in SessionIds :
        /\ SessionUser(s) = user_id
        /\ channel_id \in store[SessionKey(user_id, s)].members

\* the store was used and every command sent to it succeeded
StoreAnswered ==
    /\ last.store_ops # <<>>
    /\ \A i \in 1..Len(last.store_ops) : last.store_ops[i].ok

\* get_connection failed: the store could not be reached at all
StoreUnreachable ==
    /\ Len(last.store_ops) = 1
    /\ last.store_ops[1].cmd = "get_connection"
    /\ ~last.store_ops[1].ok

\* the keys of a user
KeysOf(user_id) ==
    {SessionKey(user_id, s) : s \in {t \in SessionIds : SessionUser(t) = user_id}}

\* a command of the call about this user failed
LookupFailedFor(user_id) ==
    \E i \in 1..Len(last.store_ops) :
        /\ ~last.store_ops[i].ok
        /\ \/ last.store_ops[i].cmd = "get_connection"
           \/ /\ last.store_ops[i].cmd = "KEYS"
              /\ last.store_ops[i].arg = OpenChannelsPrefix \o user_id \o <<":", "*">>
           \/ /\ last.store_ops[i].cmd = "SMEMBERS"
              /\ last.store_ops[i].arg \in KeysOf(user_id)

\* the text has the two characters at i, or their escaped form
MarkerAt(text, i, ch) ==
    \/ /\ i + 1 <= Len(text)
       /\ text[i] = ch
       /\ text[i + 1] = ch
    \/ /\ i + 3 <= Len(text)
       /\ text[i] = "\\"
       /\ text[i + 1] = ch
       /\ text[i + 2] = "\\"
       /\ text[i + 3] = ch

\* an opening and a closing marker, anywhere, in any order
Marked(text) ==
    /\ \E i \in 1..Len(text) : MarkerAt(text, i, "[")
    /\ \E i \in 1..Len(text) : MarkerAt(text, i, "]")

\* the notification the call was given and the one it published
GivenNotification == last.args.payload
SentNotification == last.publishes[1].body.notification

----------------------------------------------------------------------------
(* The claims *)

\* C1: with a store that answers and a recipient who is not viewing, the
\* published body's users are the recipients minus those viewing the channel.
C1_UsersAreTheNonViewers ==
    (/\ IsMessageSent
     /\ StoreAnswered
     /\ \E u \in Range(Recipients) : ~IsViewing(u, CallChannel))
    => /\ Len(last.publishes) = 1
       /\ Range(last.publishes[1].body.users) =
            {u \in Range(Recipients) : ~IsViewing(u, CallChannel)}

\* C2: with a store that answers, filter_viewers returns exactly the
\* recipients who have the channel in the set of one of their existing keys.
C2_FilterFindsTheViewers ==
    (IsMessageSent /\ StoreAnswered)
    => last.viewer_ids = {u \in Range(Recipients) : IsViewing(u, CallChannel)}

\* C2 witness: u1 views c1 in the second of two sessions only, u11 has a key
\* whose set lacks c1, and the filter returns {u1}.
C2_Witness ==
    /\ IsMessageSent
    /\ StoreAnswered
    /\ Recipients = <<u1, u11>>
    /\ CallChannel = c1
    /\ store[SessionKey(u1, s1)].members = {c9}
    /\ store[SessionKey(u1, s2)].members = {c1, c9}
    /\ store[SessionKey(u11, s3)].members = {c9}
    /\ last.viewer_ids = {u1}

\* C3 as stated: when every recipient is viewing the channel, the call
\* returns Ok and publishes nothing.
C3_AllViewingNoPublish ==
    (/\ IsMessageSent
     /\ Recipients # <<>>
     /\ \A u \in Range(Recipients) : IsViewing(u, CallChannel))
    => (last.result = "Ok" /\ last.publishes = <<>>)

\* C3 amended: when every recipient is viewing the channel and the store
\* answers every lookup of the call, the call returns Ok and publishes nothing.
C3_AllViewingAnsweredNoPublish ==
    (/\ IsMessageSent
     /\ Recipients # <<>>
     /\ StoreAnswered
     /\ \A u \in Range(Recipients) : IsViewing(u, CallChannel))
    => (last.result = "Ok" /\ last.publishes = <<>>)

\* C3 witness: both users view c9, the store answers, nothing is published.
C3_Witness ==
    /\ IsMessageSent
    /\ Recipients = <<u1, u11>>
    /\ CallChannel = c9
    /\ StoreAnswered
    /\ IsViewing(u1, c9)
    /\ IsViewing(u11, c9)
    /\ last.result = "Ok"
    /\ last.publishes = <<>>

\* C4: an empty recipient list returns Ok with no store command, not even
\* get_connection, and no publish.
C4_EmptyListTouchesNothing ==
    (IsMessageSent /\ Recipients = <<>>)
    => /\ last.result = "Ok"
       /\ last.store_ops = <<>>
       /\ last.publishes = <<>>

\* C4 witness: message_sent has returned from a call with no recipient, while
\* the store holds a record.
C4_Witness ==
    /\ IsMessageSent
    /\ Recipients = <<>>
    /\ last.result = "Ok"
    /\ IsViewing(u1, CallChannel)

\* C5: when the store cannot be reached the filter removes nobody: one
\* publish is attempted, addressed to all recipients, whoever is viewing.
C5_UnreachableStorePublishesToAll ==
    (IsMessageSent /\ Recipients # <<>> /\ StoreUnreachable)
    => /\ last.viewer_ids = {}
       /\ Len(last.publishes) = 1
       /\ last.publishes[1].body.users = Recipients
       /\ last.result \in {"Ok", "Err"}

\* C5 witness: every recipient is viewing, the store is unreachable, and the
\* message is published to both.
C5_Witness ==
    /\ IsMessageSent
    /\ Recipients = <<u1, u11>>
    /\ StoreUnreachable
    /\ IsViewing(u1, CallChannel)
    /\ IsViewing(u11, CallChannel)
    /\ Len(last.publishes) = 1
    /\ last.publishes[1].body.users = <<u1, u11>>

\* C6: a failed lookup is absorbed. No error comes from the store (a call
\* that publishes nothing returns Ok); after a failed SMEMBERS the next key of
\* the KEYS reply is examined; a recipient none of whose lookups failed is
\* classified as the store says; and a recipient is a viewer exactly when KEYS
\* answered for them and a key of theirs holding the channel did not fail.
C6_FailedLookupAbsorbed ==
    IsMessageSent =>
        LET ops == last.store_ops IN
        /\ last.publishes = <<>> => last.result = "Ok"
        /\ \A i \in 1..Len(ops) :
             (ops[i].cmd = "KEYS" /\ ops[i].ok) =>
                \A j \in 1..(Len(ops[i].reply) - 1) :
                    (/\ i + j <= Len(ops)
                     /\ ops[i + j].cmd = "SMEMBERS"
                     /\ ops[i + j].arg = ops[i].reply[j]
                     /\ ~ops[i + j].ok)
                    => /\ i + j + 1 <= Len(ops)
                       /\ ops[i + j + 1].cmd = "SMEMBERS"
                       /\ ops[i + j + 1].arg = ops[i].reply[j + 1]
        /\ \A u \in Range(Recipients) :
             ~LookupFailedFor(u) =>
                (u \in last.viewer_ids <=> IsViewing(u, CallChannel))
        /\ \A u \in Range(Recipients) :
             u \in last.viewer_ids <=>
                /\ \E i \in 1..Len(ops) :
                     /\ ops[i].cmd = "KEYS"
                     /\ ops[i].ok
                     /\ ops[i].arg = OpenChannelsPrefix \o u \o <<":", "*">>
                /\ \E key \in KeysOf(u) :
                     /\ CallChannel \in store[key].members
                     /\ ~\E i \in 1..Len(ops) :
                            /\ ops[i].cmd = "SMEMBERS"
                            /\ ops[i].arg = key
                            /\ ~ops[i].ok

\* C6 witness: SMEMBERS fails on one session key of u1, the other one is
\* examined next and holds the channel, so u1 is a viewer; u11 is not.
C6_Witness ==
    /\ IsMessageSent
    /\ Recipients = <<u1, u11>>
    /\ \E i \in 1..(Len(last.store_ops) - 1) :
         /\ last.store_ops[i].cmd = "SMEMBERS"
         /\ ~last.store_ops[i].ok
         /\ last.store_ops[i].arg \in KeysOf(u1)
         /\ last.store_ops[i + 1].cmd = "SMEMBERS"
         /\ last.store_ops[i + 1].ok
         /\ last.store_ops[i + 1].arg \in KeysOf(u1)
    /\ ~IsViewing(u11, CallChannel)
    /\ last.viewer_ids = {u1}
    /\ Len(last.publishes) = 1

\* C7: a text is replaced by the placeholder exactly when it holds an opening
\* and a closing marker, plain or escaped, in any order; the rule is applied
\* to the body and to the content each on its own.
C7_RedactedIffMarked ==
    (IsMessageSent /\ last.publishes # <<>>)
    => /\ SentNotification.body =
            IF Marked(GivenNotification.body)
            THEN SpoilerPlaceholder ELSE GivenNotification.body
       /\ SentNotification.content =
            IF GivenNotification.content # None /\ Marked(GivenNotification.content)
            THEN SpoilerPlaceholder ELSE GivenNotification.content

\* C7 witness: the body [[a]] is redacted while the content, with an opening
\* marker only, is left as it is.
C7_Witness ==
    /\ IsMessageSent
    /\ last.publishes # <<>>
    /\ GivenNotification.body = SpoilerText
    /\ GivenNotification.content = <<"[", "[", "a">>
    /\ SentNotification.body = SpoilerPlaceholder
    /\ SentNotification.content = <<"[", "[", "a">>

\* C8: the spoiler rule applied to the notification it has produced changes
\* nothing.
C8_RedactionIdempotent ==
    (IsMessageSent /\ last.publishes # <<>>)
    => RedactSpoilers(SentNotification) = SentNotification

\* C8 witness: a published notification whose body was redacted.
C8_Witness ==
    /\ IsMessageSent
    /\ last.publishes # <<>>
    /\ GivenNotification.body # SpoilerPlaceholder
    /\ SentNotification.body = SpoilerPlaceholder

\* C9: every ack_message publish carries the header x-deduplication-header
\* with the value user_id-channel_id, and no other publish carries it.
C9_AckCarriesDeduplicationHeader ==
    \A i \in 1..Len(last.publishes) :
        LET headers == last.publishes[i].properties.headers IN
        IF last.op = "ack_message"
        THEN headers = {<<"x-deduplication-header",
                          last.args.user_id \o <<"-">> \o last.args.channel_id>>}
        ELSE ~\E h \in headers : h[1] = "x-deduplication-header"

\* the routing key the configuration holds for an entry point
ConfiguredKey(op) ==
    CASE op = "friend_request_accepted" -> Config.fr_accepted_routing_key
      [] op = "friend_request_received" -> Config.fr_received_routing_key
      [] op = "generic_message" -> Config.generic_routing_key
      [] op = "message_sent" -> Config.message_routing_key
      [] op = "mass_mention_message_sent" -> Config.mass_mention_routing_key
      [] op = "ack_message" -> Config.ack_queue

\* C10: every message handed to the broker is application/json, persistent,
\* sent to the configured exchange under its own entry point's routing key.
C10_EnvelopeAndRouting ==
    \A i \in 1..Len(last.publishes) :
        LET m == last.publishes[i] IN
        /\ m.properties.content_type = "application/json"
        /\ m.properties.persistence = TRUE
        /\ m.exchange = Config.exchange
        /\ m.routing_key = ConfiguredKey(last.op)

\* C10 witness: mass_mention_message_sent has published under its own key.
C10_Witness ==
    /\ last.op = "mass_mention_message_sent"
    /\ Len(last.publishes) = 1
    /\ last.publishes[1].routing_key = Config.mass_mention_routing_key
    /\ last.publishes[1].properties.persistence

\* the entry points that publish on every call
AlwaysPublishing ==
    {"friend_request_accepted", "friend_request_received", "generic_message",
     "mass_mention_message_sent", "ack_message"}

\* C11: no entry point retries or swallows a broker failure. The five entry
\* points that always publish make exactly one basic_publish attempt,
\* message_sent makes at most one, and whenever an attempt was made the result
\* of the call is the result of that attempt, an Err for a transport error.
C11_OneAttemptItsResultReturned ==
    /\ last.op \in AlwaysPublishing => Len(last.publish_results) = 1
    /\ last.op = "message_sent" => Len(last.publish_results) <= 1
    /\ Len(last.publishes) = Len(last.publish_results)
    /\ Len(last.publish_results) = 1 => last.result = last.publish_results[1]
    /\ (\E i \in 1..Len(last.publish_results) : last.publish_results[i] = "Err")
          => last.result = "Err"

\* C11 witness: message_sent has made its one attempt, the broker has refused
\* it and the call has returned Err.
C11_Witness ==
    /\ IsMessageSent
    /\ last.publish_results = <<"Err">>
    /\ Len(last.publishes) = 1
    /\ last.result = "Err"

\* C12: when the payload of an entry point fails to serialize, the call
\* returns an Err to its caller and nothing is published.
C12_SerializationFailureReturnsErr ==
    last.to_string = "Err" => (last.result = "Err" /\ last.publishes = <<>>)

\* an update_activity call has just been made
UpdateStep == last.op = "none" /\ last'.op = "update_activity"

\* the key of the session of the update just made
UpdatedKey == SessionKey(last'.args.user, last'.args.session)

\* C13 as stated: a successful open leaves the session's key holding the
\* channel next to the channels it held, with a TTL of 300 seconds; a
\* successful close takes that channel alone out of the set and leaves the TTL
\* of the key as it was; neither touches another key, and a close on a key
\* that does not exist creates nothing.
C13_CloseNeverChangesTTL ==
    [][(UpdateStep /\ last'.result = "Ok") =>
        /\ \A key \in KeySpace \ {UpdatedKey} : store'[key] = store[key]
        /\ last'.args.type = "open" =>
            /\ store'[UpdatedKey].members =
                    store[UpdatedKey].members \cup {last'.args.target}
            /\ store'[UpdatedKey].ttl = 300
        /\ last'.args.type = "close" =>
            /\ store'[UpdatedKey].members =
                    store[UpdatedKey].members \ {last'.args.target}
            /\ store'[UpdatedKey].ttl = store[UpdatedKey].ttl
            /\ store[UpdatedKey].members = {} => store' = store
      ]_vars

\* C13 amended: as above, but the close leaves the TTL of the key as it was
\* while the set keeps a member; the close that takes the last channel out
\* deletes the key, its TTL with it.
C13_OpenCloseFrame ==
    [][(UpdateStep /\ last'.result = "Ok") =>
        /\ \A key \in KeySpace \ {UpdatedKey} : store'[key] = store[key]
        /\ last'.args.type = "open" =>
            /\ store'[UpdatedKey].members =
                    store[UpdatedKey].members \cup {last'.args.target}
            /\ store'[UpdatedKey].ttl = 300
        /\ last'.args.type = "close" =>
            /\ store'[UpdatedKey].members =
                    store[UpdatedKey].members \ {last'.args.target}
            /\ store'[UpdatedKey].members # {} =>
                    store'[UpdatedKey].ttl = store[UpdatedKey].ttl
            /\ store[UpdatedKey].members = {} => store' = store
      ]_vars

\* C13 witness: s1 of u1 has opened c1 on a key that held c9: the set holds
\* both and the TTL is 300.
C13_Witness ==
    /\ last.op = "update_activity"
    /\ last.result = "Ok"
    /\ last.args.type = "open"
    /\ last.args.session = s1
    /\ last.args.target = c1
    /\ store[SessionKey(u1, s1)] = [members |-> {c1, c9}, ttl |-> 300]
    /\ store[SessionKey(u1, s2)].members # {}

\* C14: no open_channels key exists without a TTL of at most 300 seconds.
C14_EveryKeyExpires ==
    \A key \in KeySpace :
        store[key].members # {} => store[key].ttl \in 1..300

\* C19: update_activity writes only after its guards: a bot gets IsBot, a
\* missing channel or a missing ViewChannel permission gets an error, all
\* three with the store as it was and no command sent to it; and a failed
\* connection or command of the write makes the call return InternalError.
C19_GuardsThenWrite ==
    [][UpdateStep =>
        LET a == last'.args
            guarded == a.bot \/ ~a.found \/ ~a.can_view
        IN
        /\ a.bot => last'.result = "IsBot"
        /\ (~a.bot /\ ~a.found) => last'.result \notin {"Ok", "IsBot"}
        /\ (~a.bot /\ a.found /\ ~a.can_view) =>
                last'.result = "MissingPermission"
        /\ guarded => (store' = store /\ last'.store_ops = <<>>)
        /\ (\E i \in 1..Len(last'.store_ops) : ~last'.store_ops[i].ok)
                => last'.result = "InternalError"
        /\ (~guarded /\ \A i \in 1..Len(last'.store_ops) : last'.store_ops[i].ok)
                => last'.result = "Ok"
      ]_vars

\* C19 witness: an open by a user without ViewChannel on an existing channel
\* has been refused, and the key of the session is still absent.
C19_Witness ==
    /\ last.op = "update_activity"
    /\ last.args.type = "open"
    /\ ~last.args.bot
    /\ last.args.found
    /\ ~last.args.can_view
    /\ last.result = "MissingPermission"
    /\ store[SessionKey(last.args.user, last.args.session)].members = {}
    /\ \E key \in KeySpace : store[key].members # {}

\* the entry points of impl AMQP
EntryPoints == AlwaysPublishing \cup {"message_sent"}

\* C17: the presence filter is a pure read: no call of an AMQP entry point,
\* message_sent with its filter_viewers included, adds, removes or changes a
\* key, a set member or a TTL of the store, whatever the call returns.
C17_EntryPointsLeaveTheStore ==
    [][(last.op = "none" /\ last'.op \in EntryPoints) => store' = store]_vars

\* C17 witness: message_sent has read the set of a key of u1 that holds the
\* channel, found u1 viewing, and the set is still there.
C17_Witness ==
    /\ IsMessageSent
    /\ Recipients = <<u1>>
    /\ last.viewer_ids = {u1}
    /\ \E i \in 1..Len(last.store_ops) :
         /\ last.store_ops[i].cmd = "SMEMBERS"
         /\ last.store_ops[i].ok
         /\ CallChannel \in last.store_ops[i].reply
         /\ store[last.store_ops[i].arg].members = last.store_ops[i].reply

\* the set command of an open or of a close, applied to a store
SetCommand(st, key, type, channel_id) ==
    IF type = "open" THEN SADD(st, key, channel_id) ELSE SREM(st, key, channel_id)

\* C15: opens and closes on one session key have set semantics. Whatever way
\* the commands of the requests have interleaved, the set of a key holds
\* exactly the channels whose latest open or close was an open; and from
\* there, an open or a close done twice leaves the set that doing it once
\* leaves, and two of them on different channels leave the same set in either
\* order.
C15_SetSemantics ==
    \A key \in KeySpace :
        /\ store[key].members = applied[key]
        /\ \A t1 \in {"open", "close"}, a \in ChannelIds :
             LET once == SetCommand(store, key, t1, a) IN
             /\ SetCommand(once, key, t1, a)[key].members = once[key].members
             /\ \A t2 \in {"open", "close"}, b \in ChannelIds \ {a} :
                  SetCommand(once, key, t2, b)[key].members =
                    SetCommand(SetCommand(store, key, t2, b), key, t1, a)[key].members

\* C15 witness: while a filter call is in flight, the key of s1 holds c9
\* alone, left by an open whose EXPIRE has not run, and s2 holds both channels.
C15_Witness ==
    /\ scan.pc = "smembers"
    /\ store[SessionKey(u1, s1)] = [members |-> {c9}, ttl |-> NoTTL]
    /\ applied[SessionKey(u1, s1)] = {c9}
    /\ store[SessionKey(u1, s2)].members = {c1, c9}

\* C20: the answer of a filter_viewers call that runs among opens, closes
\* and expiries fits some instant of the call: every user it reports had the
\* channel in one of their session sets at some moment of the call, and when
\* no command of the call failed, every recipient with a session key that
\* held the channel at every moment of the call is reported.
C20_AnswerWithinTheCall ==
    scan.pc # "idle" =>
        /\ scan.viewer_ids \subseteq scan.during
        /\ (scan.pc = "done" /\ ~scan.failed) =>
              \A u \in Range(scan.recipients) :
                  (KeysOf(u) \cap scan.steady # {}) => u \in scan.viewer_ids

\* C20 witness: the call reports u11, who has closed the channel since it was
\* read, and u1, one of whose keys held the channel at every moment of the call.
C20_Witness ==
    /\ scan.pc = "done"
    /\ ~scan.failed
    /\ scan.recipients = <<u11, u1>>
    /\ scan.viewer_ids = {u1, u11}
    /\ scan.steady = {SessionKey(u1, s2)}
    /\ ~ViewingIn(store, u11, scan.channel)

\* the subscribe call of session s has just completed
Completes(s) == subscribes[s].pc = "save" /\ subscribes'[s].pc = "done"

\* C16: when subscribe completes successfully for a session with an FCM
\* subscription carrying a token, the session holds the new subscription and
\* no other session of the same user holds an FCM subscription with that
\* token, however the subscribe calls have interleaved.
C16_FcmTokenOnOneSession ==
    [][\A s \in SessionIds :
        (/\ Completes(s)
         /\ subscribes'[s].result = "Ok"
         /\ subscribes'[s].sub.endpoint = "fcm")
        => /\ sessions'[s] = subscribes'[s].sub
           /\ \A t \in SessionIds \ {s} :
                SessionUser(t) = SessionUser(s) =>
                    ~(/\ sessions'[t].endpoint = "fcm"
                      /\ sessions'[t].auth = subscribes'[s].sub.auth)
      ]_vars

\* C18: a failed removal of the duplicates is absorbed. The call goes on to
\* the save, stores the new subscription when the save succeeds, and returns
\* Ok when the save succeeded and a database error when it failed, whatever
\* the removal did; a subscription that is not FCM never reaches the removal.
C18_RemovalFailureAbsorbed ==
    [][\A s \in SessionIds :
        /\ subscribes'[s].pc = "remove" => subscribes'[s].sub.endpoint = "fcm"
        /\ (subscribes[s].pc = "remove" /\ subscribes'[s] # subscribes[s])
              => subscribes'[s].pc = "save"
        /\ Completes(s) =>
              /\ subscribes'[s].removal = "skipped"
                    <=> subscribes'[s].sub.endpoint # "fcm"
              /\ subscribes'[s].saved =>
                    /\ sessions'[s] = subscribes'[s].sub
                    /\ subscribes'[s].result = "Ok"
              /\ ~subscribes'[s].saved =>
                    /\ sessions' = sessions
                    /\ subscribes'[s].result = "DatabaseError"
      ]_vars

\* C18 witness: the removal failed for s2, the save succeeded, the call
\* returned Ok, and s1 still holds the same token.
C18_Witness ==
    /\ subscribes[s2].pc = "done"
    /\ subscribes[s2].removal = "failed"
    /\ subscribes[s2].result = "Ok"
    /\ subscribes[s2].sub = [endpoint |-> "fcm", auth |-> "t1"]
    /\ sessions[s2] = subscribes[s2].sub
    /\ sessions[s1] = subscribes[s2].sub

====
